---- MODULE Spec2Model ----
(***************************************************************************)
(* A model of the cycle router driver, src/apps/cycle/router5/driver.js:   *)
(* makeRouterDriver bridges a router5 instance (callback hooks) to Rx      *)
(* observables, and dispatches a stream of sink requests to the router.    *)
(*                                                                         *)
(* transition$ is a cold observable: every subscription to a derived       *)
(* stream runs the Observable.create callback again, registers its own     *)
(* plugin and owns the sequence of events its observer was handed          *)
(* (subs[i].log).  filter / map / startWith are pure, so what a derived    *)
(* stream has emitted to a subscription is an operator of that log.        *)
(***************************************************************************)
EXTENDS Integers, Sequences, FiniteSets, TLC

VARIABLES
    started,       \* router.started
    routerState,   \* what router.getState() returns now
    autostart,     \* makeRouterDriver's second argument
    seed,          \* router.getState() as evaluated when route$ was built
    driverCalled,  \* the function makeRouterDriver returned has been called
    plugins,       \* the hooks registered with router.usePlugin, in order
    subs,          \* one record per subscription to an output stream
    history,       \* every notification the router has made, in order
    sink,          \* the request$ subscription: "none", "open" or "stopped"
    requests,      \* every value request$ has produced, in order
    logged,        \* console.log output of normaliseRequest
    calls,         \* router sink methods invoked by the driver
    diagnostics,   \* console.error output of the request$ subscription
    setupCalls,    \* router methods called by the Observable.create callback
    queries        \* calls of the source API methods, with what they returned

vars == <<started, routerState, autostart, seed, driverCalled, plugins, subs,
          history, sink, requests, logged, calls, diagnostics, setupCalls,
          queries>>

routerVars == <<started, routerState, plugins, subs, history>>
apiVars == <<setupCalls, queries>>
sinkVars == <<sink, requests, logged, calls, diagnostics>>

----------------------------------------------------------------------------
(* Bounds of the model.                                                    *)
MaxEvents == 2
MaxSubs == 2
MaxQueries == 2
MaxRequests == 2

----------------------------------------------------------------------------
(* Values.                                                                 *)

\* JavaScript's null.
Null == [tag |-> "null"]

\* Route names are dot-segmented; a name is modelled as its segments.
RouteNames == {<<"a">>, <<"a", "b">>, <<"b">>}

\* Router states.  The driver reads no field of a state but hands it on.
States == {[name |-> n] : n \in RouteNames}

\* Error payloads of onTransitionError.
Errors == {[code |-> "E1"], [code |-> "E2"]}

\* The result of transitionPath when the two states share no ancestor: the
\* name with no segment.
NoIntersection == << >>

sourceMethods ==
    <<"getState", "buildUrl", "buildPath", "matchUrl", "matchPath",
      "areStatesDescendants", "isActive">>

sinkMethods ==
    <<"cancel", "start", "stop", "navigate", "canActivate", "canDeactivate">>

----------------------------------------------------------------------------
(* Sequence helpers standing for Array.prototype / Rx operators.           *)

Map(s, F(_)) == [i \in 1..Len(s) |-> F(s[i])]

Last(s) == s[Len(s)]

Prefix(s, k) == SubSeq(s, 1, k)

\* Array.prototype.indexOf: zero-based index of the first match, or -1.
indexOf(arr, x) ==
    IF \E i \in 1..Len(arr) : arr[i] = x
    THEN (CHOOSE i \in 1..Len(arr) :
              arr[i] = x /\ \A j \in 1..(i - 1) : arr[j] # x) - 1
    ELSE -1

----------------------------------------------------------------------------
(* router5.transition-path, consumed as a black box: the deepest segment   *)
(* common to the ancestries of the two states.                             *)

CommonLen(a, b) ==
    LET m == IF Len(a) < Len(b) THEN Len(a) ELSE Len(b)
        same == {k \in 0..m : Prefix(a, k) = Prefix(b, k)}
    IN  CHOOSE k \in same : \A j \in same : j <= k

transitionPath(toState, fromState) ==
    LET i == IF fromState = Null THEN 0
             ELSE CommonLen(toState.name, fromState.name)
    IN  [intersection |-> IF i > 0 THEN Prefix(fromState.name, i)
                          ELSE NoIntersection]

----------------------------------------------------------------------------
(* The events transition$ hands to an observer.                            *)

\* pushState(type, isError) applied to the hook's arguments.
pushState(type, isError, toState, fromState, err) ==
    IF isError
    THEN [type |-> type, toState |-> toState, fromState |-> fromState,
          error |-> err]
    ELSE [type |-> type, toState |-> toState, fromState |-> fromState]

\* push(type) applied to the hook's arguments.
push(type) == [type |-> type]

----------------------------------------------------------------------------
(* The derived streams: what each has emitted to a subscription whose      *)
(* transition$ observer has been handed `log`.                             *)

\* filter that lets only the first event of the type through.
filterTake1(type, log) ==
    LET all == SelectSeq(log, LAMBDA e : e.type = type)
    IN  IF all = << >> THEN << >> ELSE <<all[1]>>

filter(type, log) == SelectSeq(log, LAMBDA e : e.type = type)

slice(type, log) == Map(filter(type, log), LAMBDA e : e.type)

\* sliceSlate that hands on the error of an event that has one.
sliceSlateWithError(type, log) ==
    Map(filter(type, log),
        LAMBDA e : IF "error" \in DOMAIN e
                   THEN [toState |-> e.toState, fromState |-> e.fromState,
                         error |-> e.error]
                   ELSE [toState |-> e.toState, fromState |-> e.fromState])

sliceSlate(type, log) ==
    Map(filter(type, log),
        LAMBDA e : [toState |-> e.toState, fromState |-> e.fromState])

\* The six filtered observables, by name without the $.
observables(log) ==
    [start |-> slice("start", log),
     stop |-> slice("stop", log),
     transitionStart |-> sliceSlate("transitionStart", log),
     transitionCancel |-> sliceSlate("transitionCancel", log),
     transitionSuccess |-> sliceSlate("transitionSuccess", log),
     transitionError |-> sliceSlate("transitionError", log)]

\* The toState of the most recent transitionStart of log, null without one.
LatestStart(log) ==
    LET at == {k \in 1..Len(log) : log[k].type = "transitionStart"}
    IN  IF at = {} THEN Null
        ELSE log[CHOOSE k \in at : \A j \in at : j <= k].toState

\* The payload of the most recent transitionError of log, null without one.
LatestError(log) ==
    LET at == {k \in 1..Len(log) : log[k].type = "transitionError"}
    IN  IF at = {} THEN Null
        ELSE log[CHOOSE k \in at : \A j \in at : j <= k].error

\* transitionRoute$ as a scan that keeps the last transitionStart.
transitionRouteSticky(log) ==
    <<Null>> \o [k \in 1..Len(log) |-> LatestStart(Prefix(log, k))]

transitionRoute(log) ==
    <<Null>> \o
    Map(log, LAMBDA e : IF e.type = "transitionStart" THEN e.toState ELSE Null)

\* error$ as a scan that keeps the last error.
errorSticky(log) ==
    <<Null>> \o [k \in 1..Len(log) |-> LatestError(Prefix(log, k))]

error(log) ==
    <<Null>> \o
    Map(log, LAMBDA e : IF e.type = "transitionError" THEN e.error ELSE Null)

\* routeState$ built on the wrong slice of transition$.
routeStateOfStart(log) ==
    Map(SelectSeq(sliceSlate("transitionStart", log),
                  LAMBDA s : s.toState # Null),
        LAMBDA s : [intersection |->
                        transitionPath(s.toState, s.fromState).intersection,
                    route |-> s.toState])

routeState(log) ==
    Map(SelectSeq(sliceSlate("transitionSuccess", log),
                  LAMBDA s : s.toState # Null),
        LAMBDA s : [intersection |->
                        transitionPath(s.toState, s.fromState).intersection,
                    route |-> s.toState])

route(log) == <<seed>> \o Map(routeState(log), LAMBDA r : r.route)

\* routeNode$ without the filter on the intersection.
routeNodeUnfiltered(node, log) ==
    SelectSeq(<<seed>> \o Map(routeState(log), LAMBDA r : r.route),
              LAMBDA r : r # Null)

\* routeNode$ that also lets a transition without intersection through.
routeNodeOrRoot(node, log) ==
    SelectSeq(<<seed>> \o
              Map(SelectSeq(routeState(log),
                            LAMBDA r : \/ r.intersection = node
                                       \/ r.intersection = NoIntersection),
                  LAMBDA r : r.route),
              LAMBDA r : r # Null)

\* routeNode$ that lets through every transition whose intersection is the
\* node or one of its ancestors.
routeNodeSubtree(node, log) ==
    SelectSeq(<<seed>> \o
              Map(SelectSeq(routeState(log),
                            LAMBDA r : /\ r.intersection # NoIntersection
                                       /\ Len(r.intersection) <= Len(node)
                                       /\ Prefix(node, Len(r.intersection))
                                              = r.intersection),
                  LAMBDA r : r.route),
              LAMBDA r : r # Null)

routeNode(node, log) ==
    SelectSeq(<<seed>> \o
              Map(SelectSeq(routeState(log),
                            LAMBDA r : r.intersection = node),
                  LAMBDA r : r.route),
              LAMBDA r : r # Null)

----------------------------------------------------------------------------
(* The router, as the driver sees it.                                      *)

\* The router invokes a hook of every registered plugin; each plugin's
\* callback calls onNext on the observer of the subscription that made it.
\* A subscription that was disposed of, or that failed, has a stopped
\* observer: Rx drops what onNext is handed then.  hooked counts the calls
\* of the subscription's hooks.
NotifyAll(ss, ps, evt) ==
    [i \in 1..Len(ss) |->
        LET n == Cardinality({k \in 1..Len(ps) : ps[k].sub = i})
        IN  [ss[i] EXCEPT
                !.hooked = @ + n,
                !.log = IF ss[i].disposed \/ ss[i].failed THEN @
                        ELSE @ \o [k \in 1..n |-> evt]]]

\* The plugin the callback of subscription id makes.
cyclePlugin(id) == [name |-> "CYCLE_DRIVER", sub |-> id]

\* router.usePlugin(cyclePlugin) for the subscription numbered id.
usePlugin(ps, id) == Append(ps, cyclePlugin(id))

\* The autostart guard without the test of router.started.
shouldStartWhenever == autostart

\* The guard of the autostart in the Observable.create callback.
shouldStart == ~started /\ autostart

\* A subscription that is handed the notifications made before it.
NewSubscriptionReplay ==
    [log |-> history, since |-> Len(history), stateAtSubscribe |-> routerState,
     startedAtSubscribe |-> started, hooked |-> 0, disposed |-> FALSE,
     failed |-> FALSE]

\* A new subscription: nothing received yet.  since, stateAtSubscribe and
\* startedAtSubscribe record when it was made.
NewSubscription ==
    [log |-> << >>, since |-> Len(history), stateAtSubscribe |-> routerState,
     startedAtSubscribe |-> started, hooked |-> 0, disposed |-> FALSE,
     failed |-> FALSE]

\* The callback with its two steps swapped: the router is started, and
\* notifies the plugins it has, before the new plugin is registered.
observerSetupStartFirst ==
    LET id == Len(subs) + 1
        ss == Append(subs, NewSubscription)
        ps == usePlugin(plugins, id)
        used == [sub |-> id, method |-> "usePlugin"]
        asked == [sub |-> id, method |-> "start"]
    IN  IF shouldStart
        THEN [plugins |-> ps, started |-> TRUE,
              subs |-> NotifyAll(ss, plugins, push("start")),
              history |-> Append(history, push("start")),
              setupCalls |-> setupCalls \o <<asked, used>>]
        ELSE [plugins |-> ps, started |-> started, subs |-> ss,
              history |-> history, setupCalls |-> Append(setupCalls, used)]

\* The callback registering its plugin twice.
observerSetupTwice ==
    LET id == Len(subs) + 1
        ss == Append(subs, NewSubscription)
        ps == usePlugin(usePlugin(plugins, id), id)
        used == setupCalls \o <<[sub |-> id, method |-> "usePlugin"],
                               [sub |-> id, method |-> "usePlugin"]>>
    IN  IF shouldStart
        THEN [plugins |-> ps, started |-> TRUE,
              subs |-> NotifyAll(ss, ps, push("start")),
              history |-> Append(history, push("start")),
              setupCalls |-> Append(used, [sub |-> id, method |-> "start"])]
        ELSE [plugins |-> ps, started |-> started, subs |-> ss,
              history |-> history, setupCalls |-> used]

\* The callback of Observable.create for a new subscription: what it leaves
\* behind.  The plugin is registered first, then the router is started.
observerSetup ==
    LET id == Len(subs) + 1
        ss == Append(subs, NewSubscription)
        ps == usePlugin(plugins, id)
        used == Append(setupCalls, [sub |-> id, method |-> "usePlugin"])
    IN  IF shouldStart
        THEN [plugins |-> ps, started |-> TRUE,
              subs |-> NotifyAll(ss, ps, push("start")),
              history |-> Append(history, push("start")),
              setupCalls |-> Append(used, [sub |-> id, method |-> "start"])]
        ELSE [plugins |-> ps, started |-> started, subs |-> ss,
              history |-> history, setupCalls |-> used]

\* The callback going on after a usePlugin that threw, as if the throw had
\* been caught: no plugin is registered but the router is started.
observerSetupRejectedGoesOn ==
    LET id == Len(subs) + 1
        ss == Append(subs, [NewSubscription EXCEPT !.failed = TRUE])
        used == Append(setupCalls, [sub |-> id, method |-> "usePlugin"])
    IN  IF shouldStart
        THEN [plugins |-> plugins, started |-> TRUE,
              subs |-> NotifyAll(ss, plugins, push("start")),
              history |-> Append(history, push("start")),
              setupCalls |-> Append(used, [sub |-> id, method |-> "start"])]
        ELSE [plugins |-> plugins, started |-> started, subs |-> ss,
              history |-> history, setupCalls |-> used]

\* The callback when router.usePlugin throws: the throw leaves the callback
\* before the autostart, and Rx hands it to the observer as onError, which
\* ends the subscription.
observerSetupRejected ==
    LET id == Len(subs) + 1
    IN  [plugins |-> plugins, started |-> started,
         subs |-> Append(subs, [NewSubscription EXCEPT !.failed = TRUE]),
         history |-> history,
         setupCalls |->
             Append(setupCalls, [sub |-> id, method |-> "usePlugin"])]

----------------------------------------------------------------------------
(* normaliseRequest.  A request is a string, an array or anything else.    *)

Str(s) == [kind |-> "string", value |-> s]
Arr(items) == [kind |-> "array", items |-> items]
Other == [kind |-> "other"]

Requests ==
    {Str("start"), Str("stop"), Str("bogus"), Other, Arr(<< >>),
     Arr(<<"navigate", "a", "b">>), Arr(<<"bogus", "a">>), Arr(<<"cancel">>)}

\* [].concat(req) for a string or an array, [] for anything else.
concat(req) ==
    IF req.kind = "string" THEN <<req.value>>
    ELSE IF req.kind = "array" THEN req.items
    ELSE << >>

\* normReq[0] of an empty array is undefined, which no method name equals.
headIndex(normReq) ==
    IF Len(normReq) = 0 THEN -1 ELSE indexOf(sinkMethods, normReq[1])

\* threw: the Error of lines 19-22; otherwise value is the array returned.
normaliseRequest(req) ==
    LET normReq == concat(req)
    IN  IF headIndex(normReq) = -1
        THEN [threw |-> TRUE, value |-> << >>]
        ELSE [threw |-> FALSE, value |-> normReq]

----------------------------------------------------------------------------
(* The source API.                                                         *)

\* The set of the elements of an array.
Range(arr) == {arr[k] : k \in 1..Len(arr)}

\* Argument lists a consumer calls a source method with.
QueryArgs == {<< >>, <<"a", "b">>}

\* What router[method].apply(router, args) returns: the router's state for
\* getState, and for the other methods an answer the router derives from the
\* method, its arguments and its state.
RouterQuery(method, args) ==
    IF method = "getState" THEN routerState
    ELSE [answer |-> method, to |-> args, at |-> routerState]

\* A source API whose methods all call the router method named last.
sourceApiLast == [api \in Range(sourceMethods) |-> Last(sourceMethods)]

\* sourceApi: for each name of sourceMethods, the router method the function
\* of that name calls.
sourceApi == [api \in Range(sourceMethods) |-> api]

\* sourceApi[api](...args): the router call made and the value returned.
sourceCall(api, args) ==
    LET method == sourceApi[api]
    IN  [api |-> api, args |-> args, method |-> method, passed |-> args,
         returned |-> RouterQuery(method, args)]

----------------------------------------------------------------------------
(* The state after makeRouterDriver(router, autostart) returned.  The      *)
(* router is the caller's: either it has not been started and holds no     *)
(* state, or it is running and is at a route already.                      *)

Init ==
    /\ started \in BOOLEAN
    /\ routerState = IF started THEN [name |-> <<"a">>] ELSE Null
    /\ autostart \in BOOLEAN
    /\ seed = routerState
    /\ driverCalled = FALSE
    /\ plugins = << >>
    /\ subs = << >>
    /\ history = << >>
    /\ sink = "none"
    /\ requests = << >>
    /\ logged = << >>
    /\ calls = << >>
    /\ diagnostics = << >>
    /\ setupCalls = << >>
    /\ queries = << >>

----------------------------------------------------------------------------
(* The router notifies its plugins.                                        *)

Notify(evt) ==
    /\ subs' = NotifyAll(subs, plugins, evt)
    /\ history' = Append(history, evt)
    /\ UNCHANGED plugins

\* router.start() on a stopped router: it becomes started and calls onStart.
RouterStart ==
    /\ started' = TRUE
    /\ Notify(push("start"))
    /\ UNCHANGED routerState

\* router.stop() on a running router: it stops and calls onStop.
RouterStop ==
    /\ started' = FALSE
    /\ Notify(push("stop"))
    /\ UNCHANGED routerState

\* The application (not the driver) starts the router.
OnStart ==
    /\ Len(history) < MaxEvents
    /\ ~started
    /\ RouterStart
    /\ UNCHANGED <<autostart, seed, driverCalled>>
    /\ UNCHANGED sinkVars
    /\ UNCHANGED apiVars

\* The application (not the driver) stops the router.
OnStop ==
    /\ Len(history) < MaxEvents
    /\ started
    /\ RouterStop
    /\ UNCHANGED <<autostart, seed, driverCalled>>
    /\ UNCHANGED sinkVars
    /\ UNCHANGED apiVars

\* The router runs transitions only while it is started; it reports them in
\* any order and from its current state.
OnTransitionStart ==
    /\ Len(history) < MaxEvents
    /\ started
    /\ \E toState \in States :
          Notify(pushState("transitionStart", FALSE, toState, routerState, Null))
    /\ UNCHANGED <<started, routerState, autostart, seed, driverCalled>>
    /\ UNCHANGED sinkVars
    /\ UNCHANGED apiVars

\* The router sets its state before it reports the success.
OnTransitionSuccess ==
    /\ Len(history) < MaxEvents
    /\ started
    /\ \E toState \in States \cup {Null} :
          /\ Notify(pushState("transitionSuccess", FALSE, toState,
                              routerState, Null))
          /\ routerState' = IF toState = Null THEN routerState ELSE toState
    /\ UNCHANGED <<started, autostart, seed, driverCalled>>
    /\ UNCHANGED sinkVars
    /\ UNCHANGED apiVars

OnTransitionError ==
    /\ Len(history) < MaxEvents
    /\ started
    /\ \E toState \in States, err \in Errors :
          Notify(pushState("transitionError", TRUE, toState, routerState, err))
    /\ UNCHANGED <<started, routerState, autostart, seed, driverCalled>>
    /\ UNCHANGED sinkVars
    /\ UNCHANGED apiVars

OnTransitionCancel ==
    /\ Len(history) < MaxEvents
    /\ started
    /\ \E toState \in States :
          Notify(pushState("transitionCancel", FALSE, toState, routerState,
                           Null))
    /\ UNCHANGED <<started, routerState, autostart, seed, driverCalled>>
    /\ UNCHANGED sinkVars
    /\ UNCHANGED apiVars

----------------------------------------------------------------------------
(* The driver.                                                             *)

\* A driver function that connects transition$ itself when it is called:
\* the plugin is registered, and the router started, without a consumer.
DriverEager ==
    /\ ~driverCalled
    /\ driverCalled' = TRUE
    /\ sink' = "open"
    /\ plugins' = usePlugin(plugins, 0)
    /\ started' = (started \/ shouldStart)
    /\ setupCalls' =
          setupCalls \o <<[sub |-> 0, method |-> "usePlugin"]>> \o
          (IF shouldStart THEN <<[sub |-> 0, method |-> "start"]>> ELSE << >>)
    /\ history' = IF shouldStart THEN Append(history, push("start"))
                  ELSE history
    /\ UNCHANGED <<autostart, seed, requests, logged, calls, diagnostics>>
    /\ UNCHANGED <<routerState, subs, queries>>

\* The function makeRouterDriver returned is called with request$: it
\* subscribes to request$ and returns the sources.
Driver ==
    /\ ~driverCalled
    /\ driverCalled' = TRUE
    /\ sink' = "open"
    /\ UNCHANGED <<autostart, seed, requests, logged, calls, diagnostics>>
    /\ UNCHANGED routerVars
    /\ UNCHANGED apiVars

\* A consumer subscribes to one of the output streams: the callback of
\* Observable.create registers a plugin, then starts the router if asked.
Subscribe ==
    /\ driverCalled
    /\ Len(subs) < MaxSubs
    /\ LET after == observerSetup
       IN  /\ plugins' = after.plugins
           /\ started' = after.started
           /\ subs' = after.subs
           /\ history' = after.history
           /\ setupCalls' = after.setupCalls
    /\ UNCHANGED <<routerState, autostart, seed, driverCalled, queries>>
    /\ UNCHANGED sinkVars

\* A consumer subscribes to one of the output streams and the router
\* refuses the plugin: router.usePlugin throws.
SubscribeRejected ==
    /\ driverCalled
    /\ Len(subs) < MaxSubs
    /\ LET after == observerSetupRejected
       IN  /\ plugins' = after.plugins
           /\ started' = after.started
           /\ subs' = after.subs
           /\ history' = after.history
           /\ setupCalls' = after.setupCalls
    /\ UNCHANGED <<routerState, autostart, seed, driverCalled, queries>>
    /\ UNCHANGED sinkVars

\* A consumer disposes of its subscription.  The callback of
\* Observable.create returned nothing to run on disposal, so Rx only stops
\* the observer: the plugin stays with the router.
Dispose ==
    /\ \E i \in 1..Len(subs) :
          /\ ~subs[i].disposed
          /\ ~subs[i].failed
          /\ subs' = [subs EXCEPT ![i].disposed = TRUE]
    /\ UNCHANGED <<started, routerState, plugins, history>>
    /\ UNCHANGED <<autostart, seed, driverCalled>>
    /\ UNCHANGED sinkVars
    /\ UNCHANGED apiVars

\* A consumer calls one of the source API methods of the bundle the driver
\* function returned.
SourceCall ==
    /\ driverCalled
    /\ Len(queries) < MaxQueries
    /\ \E api \in Range(sourceMethods), args \in QueryArgs :
          queries' = Append(queries, sourceCall(api, args))
    /\ UNCHANGED <<autostart, seed, driverCalled, setupCalls>>
    /\ UNCHANGED routerVars
    /\ UNCHANGED sinkVars

\* router[method].apply(router, args), as far as the driver's plugins see it.
RouterCall(method) ==
    IF method = "start" /\ ~started THEN RouterStart
    ELSE IF method = "stop" /\ started THEN RouterStop
    ELSE UNCHANGED routerVars

\* request$ produces a value.  While the subscription is open the value goes
\* through map(normaliseRequest); a throw there ends the subscription with
\* onError, and Rx hands nothing to a subscription that has ended.
Request ==
    /\ driverCalled
    /\ Len(requests) < MaxRequests
    /\ \E req \in Requests :
          /\ requests' = Append(requests, req)
          /\ IF sink = "open"
             THEN /\ logged' = Append(logged, req)
                  /\ LET r == normaliseRequest(req)
                         n == Len(requests) + 1
                     IN  IF r.threw
                         THEN /\ sink' = "stopped"
                              /\ diagnostics' = Append(diagnostics, [req |-> n])
                              /\ UNCHANGED calls
                              /\ UNCHANGED routerVars
                         ELSE /\ calls' = Append(calls,
                                     [req |-> n, method |-> Head(r.value),
                                      args |-> Tail(r.value)])
                              /\ RouterCall(Head(r.value))
                              /\ UNCHANGED <<sink, diagnostics>>
             ELSE /\ UNCHANGED <<sink, logged, calls, diagnostics>>
                  /\ UNCHANGED routerVars
    /\ UNCHANGED <<autostart, seed, driverCalled>>
    /\ UNCHANGED apiVars

----------------------------------------------------------------------------
(* Specifications.  Spec: the output streams under every behaviour of the  *)
(* router.  SinkSpec: the request sink.                                    *)

Next ==
    \/ Driver
    \/ Subscribe
    \/ OnStart
    \/ OnStop
    \/ OnTransitionStart
    \/ OnTransitionSuccess
    \/ OnTransitionError
    \/ OnTransitionCancel

Spec == Init /\ [][Next]_vars

\* The output streams with consumers that dispose of their subscriptions.
DisposeNext ==
    \/ Next
    \/ Dispose

DisposeSpec == Init /\ [][DisposeNext]_vars

\* The source API, with consumers of the output streams beside it.
SourceNext ==
    \/ Driver
    \/ Subscribe
    \/ SourceCall

SourceSpec == Init /\ [][SourceNext]_vars

\* The output streams with a router that may refuse a plugin.
RejectNext ==
    \/ Driver
    \/ Subscribe
    \/ SubscribeRejected
    \/ OnStart
    \/ OnStop
    \/ OnTransitionStart

RejectSpec == Init /\ [][RejectNext]_vars

SinkNext ==
    \/ Driver
    \/ Subscribe
    \/ Request

SinkSpec == Init /\ [][SinkNext]_vars

----------------------------------------------------------------------------
(* The request sink.                                                       *)

\* The sink vocabulary, as the specification lists it.
Vocabulary ==
    {"cancel", "start", "stop", "navigate", "canActivate", "canDeactivate"}

\* req is a bare name of the vocabulary, or a non-empty sequence whose head
\* is one.
IsCommand(req) ==
    \/ req.kind = "string" /\ req.value \in Vocabulary
    \/ req.kind = "array" /\ Len(req.items) > 0 /\ req.items[1] \in Vocabulary

CommandName(req) == IF req.kind = "string" THEN req.value ELSE req.items[1]

CommandArgs(req) == IF req.kind = "string" THEN << >> ELSE Tail(req.items)

\* The router calls the driver made for the k-th request.
CallsFor(k) == {c \in 1..Len(calls) : calls[c].req = k}

\* The k-th request was reported on console.error.
Reported(k) == \E d \in 1..Len(diagnostics) : diagnostics[d].req = k

\* C1: a rejected request does not stop the sink: every command of the
\* vocabulary that arrives after a rejected request is still dispatched to
\* the router.
C1_SinkSurvivesRejection ==
    \A k \in 1..Len(requests) :
        (/\ IsCommand(requests[k])
         /\ \E j \in 1..(k - 1) : ~IsCommand(requests[j]))
        => CallsFor(k) # {}

\* C2: for every command of the vocabulary the router method of that name is
\* invoked exactly once, with the supplied arguments in the supplied order,
\* and no diagnostic error is reported for it.
C2_CommandDispatchedOnce ==
    \A k \in 1..Len(requests) :
        IsCommand(requests[k]) =>
            /\ Cardinality(CallsFor(k)) = 1
            /\ \A c \in CallsFor(k) :
                  /\ calls[c].method = CommandName(requests[k])
                  /\ calls[c].args = CommandArgs(requests[k])
            /\ ~Reported(k)

\* C3: a request that is no command of the vocabulary (not a string or a
\* non-empty sequence, or an unknown name) is reported as a diagnostic error,
\* invokes no router method and puts nothing on a lifecycle stream.
C3_RejectedIsReported ==
    [][(/\ Len(requests') = Len(requests) + 1
        /\ ~IsCommand(Last(requests')))
       => /\ diagnostics' = Append(diagnostics, [req |-> Len(requests')])
          /\ calls' = calls
          /\ subs' = subs
          /\ history' = history]_vars

----------------------------------------------------------------------------
(* The stateful streams.                                                   *)

Subscriptions == 1..Len(subs)

C5_TransitionRouteKeepsLastStart ==
    \A i \in Subscriptions :
        Last(transitionRoute(subs[i].log)) = LatestStart(subs[i].log)

\* C5, amended: the latest value of transitionRoute$ is null before any
\* event, the toState of the latest event when that is a transitionStart,
\* and null again after every other event.
C5_TransitionRouteOfLatestEvent ==
    \A i \in Subscriptions :
        LET log == subs[i].log
        IN  Last(transitionRoute(log)) =
                IF log # << >> /\ Last(log).type = "transitionStart"
                THEN Last(log).toState
                ELSE Null

\* A transitionStart followed by another event: transitionRoute$ reads null.
C5_Witness ==
    \E i \in Subscriptions :
        LET log == subs[i].log
        IN  /\ Len(log) = 2
            /\ log[1].type = "transitionStart"
            /\ log[2].type # "transitionStart"
            /\ transitionRoute(log)[2] = log[1].toState
            /\ Last(transitionRoute(log)) = Null

\* The notifications the router made before subscription i.
Before(i) == Prefix(history, subs[i].since)

\* Subscription i was made after events that another subscription received.
IsLate(i) ==
    \E j \in Subscriptions : subs[j].since < subs[i].since

----------------------------------------------------------------------------
(* route$ and routeNode$.                                                  *)

\* C7: the first value route$ hands a subscriber is the router's state at
\* the moment of the subscription.
C7_RouteSeedIsStateAtSubscribe ==
    \A i \in Subscriptions :
        Head(route(subs[i].log)) = subs[i].stateAtSubscribe

\* The toState of every transitionSuccess of log that has one, in order.
RECURSIVE Successes(_)
Successes(log) ==
    IF log = << >> THEN << >>
    ELSE LET e == Head(log)
         IN  (IF e.type = "transitionSuccess" /\ e.toState # Null
              THEN <<e.toState>> ELSE << >>) \o Successes(Tail(log))

\* C8: after its seed, route$ emits exactly the toState of each
\* transitionSuccess with a non-null toState, once each and in order, and
\* nothing for any other event; the intersection is computed for those
\* events only.
C8_RouteEmitsSuccessesInOrder ==
    \A i \in Subscriptions :
        LET log == subs[i].log
        IN  /\ route(log) # << >>
            /\ Tail(route(log)) = Successes(log)
            /\ Len(routeState(log)) = Len(Successes(log))

\* Two successes to different states, received in the router's order.
C8_Witness ==
    \E i \in Subscriptions :
        LET log == subs[i].log
        IN  /\ Len(log) = 2
            /\ Len(Successes(log)) = 2
            /\ log[1].toState # log[2].toState
            /\ route(log) = <<seed, log[1].toState, log[2].toState>>

\* x is the node n or an ancestor of it.
IsSelfOrAncestor(x, n) ==
    /\ x # NoIntersection
    /\ Len(x) <= Len(n)
    /\ Prefix(n, Len(x)) = x

\* The k-th event of log made routeNode$(n) emit.
EmitsAt(n, log, k) ==
    Len(routeNode(n, Prefix(log, k))) > Len(routeNode(n, Prefix(log, k - 1)))

\* The k-th event of log is a transitionSuccess with a non-null toState.
IsSuccessAt(log, k) ==
    log[k].type = "transitionSuccess" /\ log[k].toState # Null

IntersectionAt(log, k) ==
    transitionPath(log[k].toState, log[k].fromState).intersection

\* C9: routeNode$(n) emits for an event only when it is a transitionSuccess
\* whose intersection is n or an ancestor of n, hence never for one whose
\* intersection lies in a disjoint subtree; and it emits no null, the seed
\* included.
C9_RouteNodeOnlyForOwnSubtree ==
    \A i \in Subscriptions : \A n \in RouteNames :
        LET log == subs[i].log
            out == routeNode(n, log)
        IN  /\ \A v \in 1..Len(out) : out[v] # Null
            /\ \A k \in 1..Len(log) :
                  \/ /\ IsSuccessAt(log, k)
                     /\ IsSelfOrAncestor(IntersectionAt(log, k), n)
                  \/ ~EmitsAt(n, log, k)

\* A success whose intersection is a node: routeNode$ of that node emits it,
\* routeNode$ of a node in a disjoint subtree does not.
C9_Witness ==
    \E i \in Subscriptions : \E n, m \in RouteNames :
        LET log == subs[i].log
        IN  \E k \in 1..Len(log) :
                /\ IsSuccessAt(log, k)
                /\ IntersectionAt(log, k) = n
                /\ EmitsAt(n, log, k)
                /\ ~IsSelfOrAncestor(n, m)
                /\ ~IsSelfOrAncestor(m, n)
                /\ ~EmitsAt(m, log, k)

\* The k-th event of log is a success whose states share no ancestor.
IsTopLevelChangeAt(log, k) ==
    IsSuccessAt(log, k) /\ IntersectionAt(log, k) = NoIntersection

IsProperAncestor(x, n) == IsSelfOrAncestor(x, n) /\ x # n

\* C11 as written: a transitionSuccess with a non-null toState whose
\* intersection is a proper ancestor of n makes routeNode$(n) emit that
\* toState, as one whose intersection is n does.
C11_AncestorChangeReachesNode ==
    \A i \in Subscriptions : \A n \in RouteNames :
        LET log == subs[i].log
        IN  \A k \in 1..Len(log) :
                (/\ IsSuccessAt(log, k)
                 /\ IsProperAncestor(IntersectionAt(log, k), n))
                => routeNode(n, Prefix(log, k)) =
                       Append(routeNode(n, Prefix(log, k - 1)), log[k].toState)

\* C11, amended: a transitionSuccess with a non-null toState makes
\* routeNode$(n) emit that toState exactly when its intersection equals n;
\* when the intersection is a proper ancestor of n the stream emits nothing.
C11_OnlyEqualIntersectionReachesNode ==
    \A i \in Subscriptions : \A n \in RouteNames :
        LET log == subs[i].log
        IN  \A k \in 1..Len(log) :
                IsSuccessAt(log, k) =>
                    routeNode(n, Prefix(log, k)) =
                        IF IntersectionAt(log, k) = n
                        THEN Append(routeNode(n, Prefix(log, k - 1)),
                                    log[k].toState)
                        ELSE routeNode(n, Prefix(log, k - 1))

\* A success from a to a.b (intersection a): routeNode$ of a emits it,
\* routeNode$ of a.b does not.
C11_Witness ==
    \E i \in Subscriptions : \E n \in RouteNames :
        LET log == subs[i].log
        IN  \E k \in 1..Len(log) :
                /\ IsSuccessAt(log, k)
                /\ IsProperAncestor(IntersectionAt(log, k), n)
                /\ log[k].toState.name = n
                /\ EmitsAt(IntersectionAt(log, k), log, k)
                /\ ~EmitsAt(n, log, k)

----------------------------------------------------------------------------
(* The filtered streams.                                                   *)

\* The events of one type among those of log, in order.
EventsOfType(type, log) == SelectSeq(log, LAMBDA e : e.type = type)

\* C12 as written: every value of transitionError$ carries the error payload
\* the router passed to onTransitionError, with toState and fromState.
C12_TransitionErrorCarriesError ==
    \A i \in Subscriptions :
        LET errs == EventsOfType("transitionError", subs[i].log)
            out == observables(subs[i].log).transitionError
        IN  /\ Len(out) = Len(errs)
            /\ \A k \in 1..Len(out) :
                  /\ "error" \in DOMAIN out[k]
                  /\ out[k].error = errs[k].error
                  /\ out[k].toState = errs[k].toState
                  /\ out[k].fromState = errs[k].fromState

\* C12, amended: every value of transitionError$ carries the toState and the
\* fromState the router passed to onTransitionError and nothing else: the
\* error payload is not in it.
C12_TransitionErrorCarriesStatesOnly ==
    \A i \in Subscriptions :
        LET errs == EventsOfType("transitionError", subs[i].log)
            out == observables(subs[i].log).transitionError
        IN  /\ Len(out) = Len(errs)
            /\ \A k \in 1..Len(out) :
                  /\ DOMAIN out[k] = {"toState", "fromState"}
                  /\ out[k].toState = errs[k].toState
                  /\ out[k].fromState = errs[k].fromState

\* A subscription that received a transitionError with a payload, and whose
\* transitionError$ value has no error.
C12_Witness ==
    \E i \in Subscriptions :
        LET log == subs[i].log
            out == observables(log).transitionError
        IN  /\ Len(log) > 0
            /\ Last(log).type = "transitionError"
            /\ Last(log).error \in Errors
            /\ Len(out) > 0
            /\ "error" \notin DOMAIN Last(out)

\* The notifications the router made since subscription i.
Since(i) == SubSeq(history, subs[i].since + 1, Len(history))

\* What a filtered stream of transitions must hold for the events evts.
CarriesStates(out, evts) ==
    /\ Len(out) = Len(evts)
    /\ \A k \in 1..Len(out) :
          /\ out[k].toState = evts[k].toState
          /\ out[k].fromState = evts[k].fromState

\* C13: a subscriber of a filtered stream has received, at every moment, one
\* value for each notification of the stream's type the router made since it
\* subscribed, in the router's order, and none for another type, whatever
\* the order of the notifications; start$ and stop$ emit the bare type.
C13_FilteredStreamsForwardEveryEvent ==
    \A i \in Subscriptions :
        LET log == subs[i].log
            obs == observables(log)
            n(type) == Len(EventsOfType(type, Since(i)))
        IN  /\ log = Since(i)
            /\ obs.start = [k \in 1..n("start") |-> "start"]
            /\ obs.stop = [k \in 1..n("stop") |-> "stop"]
            /\ CarriesStates(obs.transitionStart,
                             EventsOfType("transitionStart", Since(i)))
            /\ CarriesStates(obs.transitionCancel,
                             EventsOfType("transitionCancel", Since(i)))
            /\ CarriesStates(obs.transitionSuccess,
                             EventsOfType("transitionSuccess", Since(i)))
            /\ CarriesStates(obs.transitionError,
                             EventsOfType("transitionError", Since(i)))

\* A success that no transitionStart preceded, then a stop: each reaches its
\* own stream only.
C13_Witness ==
    \E i \in Subscriptions :
        LET obs == observables(subs[i].log)
        IN  /\ Len(history) = 2
            /\ subs[i].since = 0
            /\ history[1].type = "transitionSuccess"
            /\ history[2].type = "stop"
            /\ Len(obs.transitionSuccess) = 1
            /\ obs.stop = <<"stop">>
            /\ obs.start = << >>
            /\ obs.transitionStart = << >>

----------------------------------------------------------------------------
(* Subscribing: the plugin and the autostart.                              *)

\* The calls of a router method the callback of subscription i made.
SetupCallsBy(i, method) ==
    {k \in 1..Len(setupCalls) :
        setupCalls[k].sub = i /\ setupCalls[k].method = method}

\* The calls of router.start() the callbacks of all subscriptions made.
StartRequests == {k \in 1..Len(setupCalls) : setupCalls[k].method = "start"}

\* C14: a subscription requests router.start exactly when the router is not
\* started and autostart is true; without autostart no start is requested;
\* and, while nothing stops the router, all subscriptions together request
\* at most one start.
C14_StartRequestedIffStoppedAndAutostart ==
    /\ \A i \in Subscriptions :
          Cardinality(SetupCallsBy(i, "start")) =
              IF ~subs[i].startedAtSubscribe /\ autostart THEN 1 ELSE 0
    /\ ~autostart => StartRequests = {}
    /\ EventsOfType("stop", history) = << >> => Cardinality(StartRequests) <= 1

\* Two subscriptions with autostart on a router that was not started: the
\* first requested the start, the second did not.
C14_Witness ==
    /\ autostart
    /\ Len(subs) = 2
    /\ ~subs[1].startedAtSubscribe
    /\ SetupCallsBy(1, "start") # {}
    /\ SetupCallsBy(2, "start") = {}
    /\ EventsOfType("stop", history) = << >>

\* C15: a subscription made with autostart while the router is not started
\* registers its plugin before it requests the start, so its own start$
\* emits 'start', and the router is started when the subscription returns.
C15_AutostartReachesOwnSubscriber ==
    \A i \in Subscriptions :
        (~subs[i].startedAtSubscribe /\ autostart) =>
            /\ \E u \in SetupCallsBy(i, "usePlugin") :
                  \E a \in SetupCallsBy(i, "start") : u < a
            /\ subs[i].log # << >>
            /\ Head(subs[i].log) = push("start")
            /\ observables(subs[i].log).start # << >>
            /\ Head(observables(subs[i].log).start) = "start"
            /\ Len(history) = subs[i].since + 1 => started

\* The subscription has just been made: start$ holds one 'start' and the
\* router is started.
C15_Witness ==
    \E i \in Subscriptions :
        /\ ~subs[i].startedAtSubscribe
        /\ autostart
        /\ Len(history) = subs[i].since + 1
        /\ observables(subs[i].log).start = <<"start">>
        /\ started

\* C18: as long as no consumer has subscribed to an output stream, making
\* the driver and calling it have registered no plugin and requested no
\* start; each plugin and each start request belongs to a subscription.
C18_NothingBeforeSubscription ==
    /\ Len(subs) = 0 => plugins = << >> /\ setupCalls = << >>
    /\ \A k \in 1..Len(plugins) : plugins[k].sub \in Subscriptions
    /\ \A k \in 1..Len(setupCalls) : setupCalls[k].sub \in Subscriptions

\* The driver was called with autostart on an unstarted router and nothing
\* has subscribed: no plugin, no start.
C18_Witness ==
    /\ driverCalled
    /\ autostart
    /\ subs = << >>
    /\ ~started
    /\ plugins = << >>
    /\ history = << >>

\* C20: each subscription registers exactly one plugin, named CYCLE_DRIVER
\* like all others, so the router holds as many driver plugins as there are
\* subscriptions; and each subscription has received each notification made
\* since it subscribed exactly once.
C20_OnePluginPerSubscription ==
    /\ Len(plugins) = Len(subs)
    /\ \A k \in 1..Len(plugins) : plugins[k].name = "CYCLE_DRIVER"
    /\ \A i \in Subscriptions :
          /\ Cardinality({k \in 1..Len(plugins) : plugins[k].sub = i}) = 1
          /\ Cardinality(SetupCallsBy(i, "usePlugin")) = 1
          /\ subs[i].log = Since(i)
          /\ subs[i].hooked = Len(Since(i))

\* Two subscriptions, two plugins of the same name, and a notification both
\* received once.
C20_Witness ==
    /\ Len(subs) = 2
    /\ Len(plugins) = 2
    /\ plugins[1].name = plugins[2].name
    /\ plugins[1].sub # plugins[2].sub
    /\ Len(subs[2].log) = 1
    /\ subs[2].hooked = 1
    /\ Len(subs[1].log) = 2
    /\ Last(subs[1].log) = subs[2].log[1]

----------------------------------------------------------------------------
(* Disposal.                                                               *)

\* C16: disposing of a subscription deregisters the plugin it registered:
\* the plugin is no longer among the router's, and its hooks are not called
\* again.
C16_DisposeDeregistersHook ==
    \A i \in Subscriptions :
        subs[i].disposed =>
            /\ \A k \in 1..Len(plugins) : plugins[k].sub # i
            /\ subs[i].hooked = Len(subs[i].log)

----------------------------------------------------------------------------
(* The source API.                                                         *)

\* C17: a call of a source method calls the router method of the same name
\* with the same arguments and returns what the router returned; it invokes
\* no sink method, registers no plugin, starts nothing and puts nothing on
\* an output stream.
C17_SourceCallForwardsOnly ==
    [][Len(queries') = Len(queries) + 1 =>
          LET q == Last(queries')
          IN  /\ q.method = q.api
              /\ q.passed = q.args
              /\ q.returned = RouterQuery(q.api, q.args)
              /\ calls' = calls
              /\ plugins' = plugins
              /\ setupCalls' = setupCalls
              /\ subs' = subs
              /\ history' = history
              /\ started' = started
              /\ routerState' = routerState]_vars

\* buildPath('a', 'b') was called while an output stream had a subscriber,
\* and getState() returned the router's state.
C17_Witness ==
    /\ Len(subs) > 0
    /\ Len(queries) = 2
    /\ queries[1].api = "buildPath"
    /\ queries[1].method = "buildPath"
    /\ queries[1].passed = <<"a", "b">>
    /\ queries[2].api = "getState"
    /\ queries[2].returned = routerState

----------------------------------------------------------------------------
(* A refused plugin.                                                       *)

\* C19: a subscription whose plugin the router refused has failed at once:
\* it has received nothing, holds no plugin, has asked for no start and has
\* called usePlugin once only; the other subscriptions have received every
\* notification made since they subscribed.
C19_RejectedSubscriptionFailsAlone ==
    \A i \in Subscriptions :
        IF subs[i].failed
        THEN /\ subs[i].log = << >>
             /\ \A k \in 1..Len(plugins) : plugins[k].sub # i
             /\ SetupCallsBy(i, "start") = {}
             /\ Cardinality(SetupCallsBy(i, "usePlugin")) = 1
        ELSE subs[i].log = Since(i)

\* A subscription failed while autostart was on and the router stopped, and
\* an earlier subscription received the notification made after that.
C19_Witness ==
    \E i, j \in Subscriptions :
        /\ subs[i].failed
        /\ autostart
        /\ ~subs[i].startedAtSubscribe
        /\ ~subs[j].failed
        /\ subs[j].since <= subs[i].since
        /\ Len(history) > subs[i].since
        /\ Last(subs[j].log) = Last(history)

====
